---- MODULE Spec2Model ----
(***************************************************************************)
(* Model of markdown-toc: the slugifier (lib/utils.ts), the MarkedAdapter  *)
(* heading pipeline behind toc() (index.ts) and the marker splicer insert  *)
(* (lib/insert.ts).  A string is a sequence of one-character strings; the  *)
(* TOC markers, a heading line and an ANSI escape are single elements of   *)
(* such a sequence.                                                        *)
(***************************************************************************)
EXTENDS Integers, Sequences, FiniteSets, TLC

(* ------------------------------ bounds --------------------------------- *)
MaxStrLen == 4
MaxTokens == 3
MaxLvl == 3
MaxBodyLen == 4

(* --------------------------- string helpers ---------------------------- *)
NL == "\n"
SP == " "
TAB == "\t"

\* JavaScript's \s restricted to the characters of the model
Whitespace == {SP, NL, TAB}

SeqsUpTo(S, n) == UNION {[1..m -> S] : m \in 0..n}

\* Array.prototype.join
RECURSIVE Join(_, _)
Join(ss, sep) ==
  IF ss = << >> THEN << >>
  ELSE IF Len(ss) = 1 THEN ss[1]
  ELSE ss[1] \o sep \o Join(Tail(ss), sep)

\* String.prototype.repeat
RECURSIVE Repeat(_, _)
Repeat(s, n) == IF n <= 0 THEN << >> ELSE s \o Repeat(s, n - 1)

\* Array.prototype.slice(1)
Tail1(s) == IF s = << >> THEN << >> ELSE Tail(s)

RemoveChars(str, set) == SelectSeq(str, LAMBDA c : c \notin set)

Min(a, b) == IF a < b THEN a ELSE b
Max(a, b) == IF a > b THEN a ELSE b

\* String.prototype.trim
RECURSIVE TrimLeft(_)
TrimLeft(s) ==
  IF s # << >> /\ Head(s) \in Whitespace THEN TrimLeft(Tail(s)) ELSE s

RECURSIVE TrimRight(_)
TrimRight(s) ==
  IF s # << >> /\ s[Len(s)] \in Whitespace
    THEN TrimRight(SubSeq(s, 1, Len(s) - 1))
    ELSE s

trim(s) == TrimRight(TrimLeft(s))

(* ------------------------------ slugify -------------------------------- *)
UpperCase == <<"A","B","C","D","E","F","G","H","I","J","K","L","M",
               "N","O","P","Q","R","S","T","U","V","W","X","Y","Z">>
LowerCase == <<"a","b","c","d","e","f","g","h","i","j","k","l","m",
               "n","o","p","q","r","s","t","u","v","w","x","y","z">>

toLowerCase(str) ==
  [i \in 1..Len(str) |->
     IF \E j \in 1..26 : UpperCase[j] = str[i]
       THEN LowerCase[CHOOSE j \in 1..26 : UpperCase[j] = str[i]]
       ELSE str[i]]

\* an ANSI colour escape sequence, one element
AnsiCodes == {"ESC[31m", "ESC[39m"}

stripColor(str) == RemoveChars(str, AnsiCodes)

\* /^\[([^\]]+)\]/
getTitle(str) ==
  IF /\ Len(str) >= 3
     /\ str[1] = "["
     /\ \E j \in 3..Len(str) : str[j] = "]" /\ \A i \in 2..(j-1) : str[i] # "]"
  THEN LET j == CHOOSE j \in 3..Len(str) :
                  str[j] = "]" /\ \A i \in 2..(j-1) : str[i] # "]"
       IN SubSeq(str, 2, j - 1)
  ELSE str

\* mutant: whitespace is dropped instead of hyphenated
ReplaceWhitespaceRunsDropped(str) == RemoveChars(str, Whitespace)

\* str.replace(/\s+/g, "-")
RECURSIVE ReplaceWhitespaceRuns(_)
ReplaceWhitespaceRuns(str) ==
  IF str = << >> THEN << >>
  ELSE IF Head(str) \in Whitespace
    THEN <<"-">> \o ReplaceWhitespaceRuns(TrimLeft(str))
    ELSE <<Head(str)>> \o ReplaceWhitespaceRuns(Tail(str))

\* str.replace(/\t/g, "--")
RECURSIVE ReplaceTabs(_)
ReplaceTabs(str) ==
  IF str = << >> THEN << >>
  ELSE IF Head(str) = TAB
    THEN <<"-", "-">> \o ReplaceTabs(Tail(str))
    ELSE <<Head(str)>> \o ReplaceTabs(Tail(str))

\* str.replace(/<\/?[^>]+>/g, ""): "<", at least one character other than
\* ">", then ">"
RECURSIVE StripTags(_)
StripTags(str) ==
  IF str = << >> THEN << >>
  ELSE IF /\ Head(str) = "<"
          /\ \E j \in 3..Len(str) : str[j] = ">" /\ \A i \in 2..(j-1) : str[i] # ">"
    THEN LET j == CHOOSE j \in 3..Len(str) :
                    str[j] = ">" /\ \A i \in 2..(j-1) : str[i] # ">"
         IN StripTags(SubSeq(str, j + 1, Len(str)))
    ELSE <<Head(str)>> \o StripTags(Tail(str))

\* the ASCII punctuation class; the backtick is named by code point
Punctuation == {"|", "$", "&", "U+0060", "~", "=", "\\", "/", "@", "+", "*", "!",
                "?", "(", "{", "[", "]", "}", ")", "<", ">", ".", ",", ";",
                ":", "'", "\"", "^"}

\* the full-width punctuation class, characters named by code point
CJKPunctuation == {"U+3002", "U+FF1F", "U+FF01", "U+FF0C", "U+3001", "U+FF1B",
                   "U+FF1A", "U+201C", "U+201D", "U+3010", "U+3011", "U+FF08",
                   "U+FF09", "U+3014", "U+3015", "U+FF3B", "U+FF3D", "U+FE43",
                   "U+FE44", SP, "U+2018", "U+2019", "U+FE41", "U+FE42",
                   "U+2014", "U+2026", "U+FF0D", "U+FF5E", "U+300A", "U+300B",
                   "U+3008", "U+3009", "U+300C", "U+300D"}

\* diacritics-map restricted to the letters of the model
Diacritics == [c \in {"U+00E9", "U+00C0"} |-> IF c = "U+00E9" THEN "e" ELSE "A"]

replaceDiacritics(str) ==
  [i \in 1..Len(str) |->
     IF str[i] \in DOMAIN Diacritics THEN Diacritics[str[i]] ELSE str[i]]

\* options.slugify is "default" (unset) or "off" (false); options.num = 0
\* stands for an unset num
DefaultSlugOptions == [slugify |-> "default", stripHeadingTags |-> TRUE, num |-> 0]

slugify(str, options) ==
  IF options.slugify = "off" THEN str
  ELSE
    LET s1 == getTitle(str)
        s2 == stripColor(s1)
        s3 == toLowerCase(s2)
        s4 == ReplaceWhitespaceRuns(s3)
        s5 == ReplaceTabs(s4)
        s6 == IF options.stripHeadingTags # FALSE THEN StripTags(s5) ELSE s5
        s7 == RemoveChars(s6, Punctuation)
        s8 == RemoveChars(s7, CJKPunctuation)
        s9 == replaceDiacritics(s8)
    IN IF options.num # 0 THEN s9 \o <<"-", ToString(options.num)>> ELSE s9

(* --------------------------- MarkedAdapter ----------------------------- *)
DefaultMaxDepth == 6

\* the value of options.bullets when neither bullets nor chars is given
UnsetBullets == <<"(unset)">>

\* the resolved option set of the constructor: firsth1 true, maxdepth 6,
\* linkify true unless the caller overrides them.  indent = << >> and
\* append = << >> stand for unset strings, filter = "none" for no predicate.
DefaultOptions ==
  [firsth1 |-> TRUE, maxdepth |-> DefaultMaxDepth, linkify |-> TRUE,
   titleize |-> TRUE, bullets |-> UnsetBullets, indent |-> << >>,
   append |-> << >>, filter |-> "none", slugify |-> "default",
   stripHeadingTags |-> TRUE, num |-> 0, toc |-> << >>]

\* this.options.maxdepth || 6
MaxDepthOf(options) ==
  IF options.maxdepth = 0 THEN DefaultMaxDepth ELSE options.maxdepth

\* caller-supplied predicates filter(content, heading, headings)
ApplyFilter(name, content) ==
  CASE name = "dropB" -> content # <<"B">>
    [] name = "onlyB" -> content = <<"B">>
    [] OTHER -> TRUE

getTokenText(token) ==
  CASE token.type = "heading" -> token.text
    [] token.type = "text" -> token.text
    [] token.type = "image" -> << >>
    [] OTHER -> token.text

\* this.seen[text] after the duplicate tracking of processHeadingToken;
\* a text outside DOMAIN seen is an undefined entry
TrackSeen(seen, text) ==
  IF text \notin DOMAIN seen \/ seen[text] = 0
    THEN [t \in DOMAIN seen \cup {text} |-> IF t = text THEN 0 ELSE seen[t]]
    ELSE [seen EXCEPT ![text] = @ + 1]

\* the slug stored in the heading record
HeadingSlug(text, options) == slugify(text, options)

\* mutant: one-based index
HeadingIndexOneBased(headings) == Len(headings) + 1

\* the i field of the heading record
HeadingIndex(headings) == Len(headings)

\* st is [seen, headings], the adapter's two mutable fields
RECURSIVE processHeadingToken(_, _, _, _)
RECURSIVE processChildren(_, _, _, _)
processHeadingToken(st, token, depth, options) ==
  IF depth > MaxDepthOf(options) THEN st
  ELSE IF token.type # "heading" THEN st
  ELSE
    LET headingDepth == token.depth
        text == getTokenText(token)
        seen1 == TrackSeen(st.seen, text)
        slug == HeadingSlug(text, options)
        heading == [content |-> text, slug |-> slug, lvl |-> headingDepth,
                    i |-> HeadingIndex(st.headings), seen |-> seen1[text]]
        st1 == [seen |-> seen1, headings |-> Append(st.headings, heading)]
    IN processChildren(st1, token.tokens, headingDepth, options)

processChildren(st, children, depth, options) ==
  IF children = << >> THEN st
  ELSE processChildren(processHeadingToken(st, Head(children), depth, options),
                       Tail(children), depth, options)

EmptyAdapter == [seen |-> << >>, headings |-> << >>]

RECURSIVE extractHeadings(_, _, _)
extractHeadings(st, tokens, options) ==
  IF tokens = << >> THEN st
  ELSE extractHeadings(
         IF Head(tokens).type = "heading"
           THEN processHeadingToken(st, Head(tokens), 0, options)
           ELSE st,
         Tail(tokens), options)

processHeadings(headings, options) ==
  LET sliced == IF ~options.firsth1 THEN Tail1(headings) ELSE headings
  IN IF options.filter # "none"
       THEN SelectSeq(sliced, LAMBDA h : ApplyFilter(options.filter, h.content))
       ELSE sliced

getHighestLevel(headings) ==
  IF Len(headings) = 0 THEN 0
  ELSE CHOOSE m \in {headings[j].lvl : j \in 1..Len(headings)} :
         \A j \in 1..Len(headings) : m <= headings[j].lvl

\* str.replace(/[ \t]+/g, " ")
RECURSIVE CollapseBlanks(_)
CollapseBlanks(str) ==
  IF str = << >> THEN << >>
  ELSE IF Head(str) \in {SP, TAB}
    THEN IF Len(str) > 1 /\ str[2] \in {SP, TAB}
           THEN CollapseBlanks(Tail(str))
           ELSE <<SP>> \o CollapseBlanks(Tail(str))
    ELSE <<Head(str)>> \o CollapseBlanks(Tail(str))

titleize(str, options) ==
  LET r1 == IF options.stripHeadingTags # FALSE THEN StripTags(str) ELSE str
  IN trim(CollapseBlanks(r1))

DefaultBullets == <<"-", "*", "+">>
DefaultIndent == <<SP, SP>>

BulletsOf(options) ==
  IF options.bullets = UnsetBullets THEN DefaultBullets ELSE options.bullets

\* mutant: the glyph is picked by the indentation depth below the first level
BulletForDepth(lvl, bullets) ==
  LET bulletIndex == Min(lvl - 2, Len(bullets) - 1)
  IN IF bulletIndex >= 0 /\ bullets[bulletIndex + 1] # ""
       THEN bullets[bulletIndex + 1]
       ELSE "-"

\* bullets[Math.min(heading.lvl - 1, bullets.length - 1)] || "-"
BulletFor(lvl, bullets) ==
  LET bulletIndex == Min(lvl - 1, Len(bullets) - 1)
  IN IF bulletIndex >= 0 /\ bullets[bulletIndex + 1] # ""
       THEN bullets[bulletIndex + 1]
       ELSE "-"

\* one rendered line; lvl records the heading it renders
RenderLine(heading, headings, options) ==
  LET bullet == BulletFor(heading.lvl, BulletsOf(options))
      indent == IF options.indent = << >> THEN DefaultIndent ELSE options.indent
      indentLevel == Max(0, heading.lvl - getHighestLevel(headings))
      indentation == Repeat(indent, indentLevel)
      linkText == IF options.titleize # FALSE
                    THEN titleize(heading.content, options)
                    ELSE heading.content
  IN [lvl |-> heading.lvl,
      str |-> IF options.linkify # FALSE
                THEN indentation \o <<bullet, SP, "[">> \o linkText
                       \o <<"]", "(", "#">> \o heading.slug \o <<")">>
                ELSE indentation \o <<bullet, SP>> \o heading.content]

\* the lines array of generateTOCContent, without the append line
generateLines(headings, options) ==
  LET kept == SelectSeq(headings, LAMBDA h : ~(h.lvl > MaxDepthOf(options)))
  IN [j \in 1..Len(kept) |-> RenderLine(kept[j], headings, options)]

generateTOCContent(headings, options) ==
  LET lines == generateLines(headings, options)
      strs == [j \in 1..Len(lines) |-> lines[j].str]
  IN Join(IF options.append # << >> THEN Append(strs, options.append) ELSE strs,
          <<NL>>)

generateJSONOutput(headings) ==
  [j \in 1..Len(headings) |->
     [content |-> headings[j].content, slug |-> headings[j].slug,
      lvl |-> headings[j].lvl, i |-> headings[j].i, seen |-> headings[j].seen]]

\* MarkedAdapter.parse after the lexer: toc(str, options) for the token list
\* the lexer returns for str
parse(tokens, options) ==
  LET st == extractHeadings(EmptyAdapter, tokens, options)
      hs == processHeadings(st.headings, options)
  IN [content |-> generateTOCContent(hs, options),
      json |-> generateJSONOutput(hs),
      highest |-> getHighestLevel(hs)]

(* ------------------------------- lexer --------------------------------- *)
\* marked.lexer on the documents of the model: the block tokens of a text
\* whose lines are blank, a paragraph, or an ATX heading.  A heading line is
\* at most three spaces, a heading element, and the rest of the line, which
\* belongs to the heading text.
HeadingElems == {"# A", "## B"}

ElemDepth(e) == IF e = "# A" THEN 1 ELSE 2

\* the characters of an element after the "# " prefix of a heading is taken
ElemText(e) ==
  CASE e = "# A" -> <<"A">>
    [] e = "## B" -> <<"B">>
    [] OTHER -> <<e>>

\* the characters of an element inside running text
ElemChars(e) ==
  CASE e = "# A" -> <<"#", SP, "A">>
    [] e = "## B" -> <<"#", "#", SP, "B">>
    [] OTHER -> <<e>>

RECURSIVE LineChars(_)
LineChars(line) ==
  IF line = << >> THEN << >> ELSE ElemChars(Head(line)) \o LineChars(Tail(line))

RECURSIVE SplitLines(_)
SplitLines(str) ==
  IF \E j \in 1..Len(str) : str[j] = NL
    THEN LET j == CHOOSE j \in 1..Len(str) :
                    str[j] = NL /\ \A i \in 1..(j-1) : str[i] # NL
         IN <<SubSeq(str, 1, j - 1)>> \o SplitLines(SubSeq(str, j + 1, Len(str)))
    ELSE <<str>>

LeadingSpaces(line) ==
  Cardinality({j \in 1..Len(line) : \A i \in 1..j : line[i] = SP})

TextToken(text) == [type |-> "text", depth |-> 0, text |-> text, tokens |-> << >>]

LexLine(line) ==
  LET n == LeadingSpaces(line)
      rest == SubSeq(line, n + 1, Len(line))
  IN IF rest = << >> THEN << >>
     ELSE IF n <= 3 /\ Head(rest) \in HeadingElems
       THEN LET text == trim(ElemText(Head(rest)) \o LineChars(Tail(rest)))
            IN <<[type |-> "heading", depth |-> ElemDepth(Head(rest)),
                  text |-> text, tokens |-> <<TextToken(text)>>]>>
       ELSE LET text == trim(LineChars(rest))
            IN <<[type |-> "paragraph", depth |-> 0, text |-> text,
                  tokens |-> <<TextToken(text)>>]>>

RECURSIVE LexLines(_)
LexLines(lines) ==
  IF lines = << >> THEN << >> ELSE LexLine(Head(lines)) \o LexLines(Tail(lines))

lexer(content) == LexLines(SplitLines(content))

\* toc(str, options)
toc(str, options) == parse(lexer(str), options)

(* ------------------------------- insert -------------------------------- *)
OpenMarker == "<!-- toc -->"
StopMarker == "<!-- tocstop -->"

\* the elements /(?:<!-- toc(?:\s*stop)? -->)/g matches
Markers == {OpenMarker, StopMarker}

open == <<OpenMarker, NL, NL>>
close == <<StopMarker>>

\* (/\n+$/.exec(str) || [""])[0]
RECURSIVE TrailingNewlines(_)
TrailingNewlines(str) ==
  IF str # << >> /\ str[Len(str)] = NL
    THEN Append(TrailingNewlines(SubSeq(str, 1, Len(str) - 1)), NL)
    ELSE << >>

\* str.split(re)
RECURSIVE SplitOnMarkers(_)
SplitOnMarkers(str) ==
  IF \E j \in 1..Len(str) : str[j] \in Markers
    THEN LET j == CHOOSE j \in 1..Len(str) :
                    str[j] \in Markers /\ \A i \in 1..(j-1) : str[i] \notin Markers
         IN <<SubSeq(str, 1, j - 1)>> \o SplitOnMarkers(SubSeq(str, j + 1, Len(str)))
    ELSE <<str>>

split(str) ==
  LET parts == SplitOnMarkers(str) IN [j \in 1..Len(parts) |-> trim(parts[j])]

\* front-matter: the parser's split/join contract.  The block runs from the
\* opening delimiter through the closing one and the newline after it; with
\* no closing delimiter the whole text is front-matter.
FMDelim == "---"

HasFrontMatter(str) == str # << >> /\ Head(str) = FMDelim

FrontMatterEnd(str) ==
  IF \E j \in 2..Len(str) : str[j] = FMDelim
    THEN LET j == CHOOSE j \in 2..Len(str) :
                    str[j] = FMDelim /\ \A i \in 2..(j-1) : str[i] # FMDelim
         IN IF j < Len(str) /\ str[j + 1] = NL THEN j + 1 ELSE j
    ELSE Len(str)

matter(str) ==
  [data |-> SubSeq(str, 1, FrontMatterEnd(str)),
   content |-> SubSeq(str, FrontMatterEnd(str) + 1, Len(str))]

stringify(content, data) == data \o content

MaxSections == 3

\* mutant: one more section tolerated
TooManySectionsOffByOne(sections) == Len(sections) > MaxSections + 1

\* the guard of the throw
TooManySections(sections) == Len(sections) > MaxSections

\* mutant: the TOC is rendered from the segment before the markers
SpliceFromFirst(sections, options) ==
  LET first == sections[1]
  IN IF Len(sections) = 3
       THEN <<sections[1],
              open \o (IF options.toc # << >> THEN options.toc
                       ELSE toc(first, options).content),
              close,
              sections[3]>>
     ELSE IF Len(sections) = 2
       THEN <<sections[1],
              open \o toc(first, options).content \o <<NL, NL>> \o close,
              sections[2]>>
     ELSE sections

\* the sections array after the two splices
Splice(sections, options) ==
  LET last == sections[Len(sections)]
  IN IF Len(sections) = 3
       THEN <<sections[1],
              open \o (IF options.toc # << >> THEN options.toc
                       ELSE toc(last, options).content),
              close,
              sections[3]>>
     ELSE IF Len(sections) = 2
       THEN <<sections[1],
              open \o toc(last, options).content \o <<NL, NL>> \o close,
              sections[2]>>
     ELSE sections

\* the text the markers are searched in
Body(str) == IF HasFrontMatter(str) THEN matter(str).content ELSE str

\* the captured trailing newline run
Newlines(str) == TrailingNewlines(str)

\* mutant: the front-matter is not reattached
RestoreDropped(str, resultString) == resultString

\* restore front-matter if it was found
Restore(str, resultString) ==
  IF HasFrontMatter(str)
    THEN stringify(resultString, matter(str).data)
    ELSE resultString

\* mutant: every segment count other than 2 or 3 is rejected
insertStrict(str, options) ==
  LET newlines == Newlines(str)
      sections == split(Body(str))
  IN IF Len(sections) \notin {2, 3}
       THEN [status |-> "error",
             message |-> "markdown-toc only supports one Table of Contents per file."]
       ELSE [status |-> "ok",
             value |-> Restore(str, Join(Splice(sections, options), <<NL, NL>>)
                                      \o newlines)]

insert(str, options) ==
  LET newlines == Newlines(str)
      sections == split(Body(str))
  IN IF TooManySections(sections)
       THEN [status |-> "error",
             message |-> "markdown-toc only supports one Table of Contents per file."]
       ELSE [status |-> "ok",
             value |-> Restore(str, Join(Splice(sections, options), <<NL, NL>>)
                                      \o newlines)]

(* ------------------------------- state --------------------------------- *)
VARIABLES
  spc, sstr, sopts, sslug,                    \* a call of utils.slugify
  pc, tokens, options, k, seen, headings,     \* a call of toc(): the adapter
  lines, result,                              \*   and what parse returns
  ipc, doc, iopts, inserted, reinserted       \* insert, and insert again

vars == <<spc, sstr, sopts, sslug, pc, tokens, options, k, seen, headings,
          lines, result, ipc, doc, iopts, inserted, reinserted>>

slugVars == <<spc, sstr, sopts, sslug>>
tocVars == <<pc, tokens, options, k, seen, headings, lines, result>>
insertVars == <<ipc, doc, iopts, inserted, reinserted>>

None == [status |-> "none"]

SlugIdle ==
  /\ spc = "idle" /\ sstr = << >> /\ sopts = DefaultSlugOptions /\ sslug = << >>

TocIdle ==
  /\ pc = "idle" /\ tokens = << >> /\ options = DefaultOptions /\ k = 1
  /\ seen = << >> /\ headings = << >> /\ lines = << >> /\ result = None

InsertIdle ==
  /\ ipc = "idle" /\ doc = << >> /\ iopts = DefaultOptions
  /\ inserted = None /\ reinserted = None

(* ------------------------ a call of utils.slugify ---------------------- *)
SlugChars == {"A", "b", SP, TAB, "!", "<", ">", "[", "]"}

HelloWorld == <<"H","e","l","l","o",SP,"W","o","r","l","d","!">>
CppAndGo == <<"C","+","+",SP,"&",SP,"G","o">>

SlugInputs == SeqsUpTo(SlugChars, MaxStrLen) \cup {HelloWorld, CppAndGo}

SlugOptionSets ==
  {DefaultSlugOptions,
   [DefaultSlugOptions EXCEPT !.stripHeadingTags = FALSE],
   [DefaultSlugOptions EXCEPT !.num = 1]}

InitSlugify ==
  /\ spc = "call"
  /\ sstr \in SlugInputs
  /\ sopts \in SlugOptionSets
  /\ sslug = << >>
  /\ TocIdle /\ InsertIdle

Slugify ==
  /\ spc = "call"
  /\ sslug' = slugify(sstr, sopts)
  /\ spc' = "return"
  /\ UNCHANGED <<sstr, sopts, tocVars, insertVars>>

NextSlugify == Slugify

SpecSlugify == InitSlugify /\ [][NextSlugify]_vars

(* --------------------------- a call of toc() --------------------------- *)
Texts == {<<"A">>, <<"B">>}

HeadingTokens ==
  {[type |-> "heading", depth |-> d, text |-> t, tokens |-> <<TextToken(t)>>] :
     d \in 1..MaxLvl, t \in Texts}

ParagraphTokens ==
  {[type |-> "paragraph", depth |-> 0, text |-> <<"x">>,
    tokens |-> <<TextToken(<<"x">>)>>]}

\* what the lexer hands to extractHeadings
TokenLists == SeqsUpTo(HeadingTokens \cup ParagraphTokens, MaxTokens)

Filters == {"none", "dropB"}

TocOptionSets ==
  {[DefaultOptions EXCEPT !.firsth1 = f, !.maxdepth = m, !.filter = p] :
     f \in BOOLEAN, m \in 1..DefaultMaxDepth, p \in Filters}

InitToc ==
  /\ tokens \in TokenLists
  /\ options \in TocOptionSets
  /\ pc = IF tokens = << >> THEN "processHeadings" ELSE "extract"
  /\ k = 1
  /\ seen = << >>
  /\ headings = << >>
  /\ lines = << >>
  /\ result = None
  /\ SlugIdle /\ InsertIdle

\* one iteration of the loop of extractHeadings
ExtractToken ==
  /\ pc = "extract"
  /\ k <= Len(tokens)
  /\ LET st == IF tokens[k].type = "heading"
                 THEN processHeadingToken([seen |-> seen, headings |-> headings],
                                          tokens[k], 0, options)
                 ELSE [seen |-> seen, headings |-> headings]
     IN /\ seen' = st.seen
        /\ headings' = st.headings
  /\ k' = k + 1
  /\ pc' = IF k = Len(tokens) THEN "processHeadings" ELSE "extract"
  /\ UNCHANGED <<tokens, options, lines, result, slugVars, insertVars>>

ProcessHeadings ==
  /\ pc = "processHeadings"
  /\ headings' = processHeadings(headings, options)
  /\ pc' = "generate"
  /\ UNCHANGED <<tokens, options, k, seen, lines, result, slugVars, insertVars>>

\* steps 3 and 4 of parse, and its return
Generate ==
  /\ pc = "generate"
  /\ lines' = generateLines(headings, options)
  /\ result' = [status |-> "ok",
                content |-> generateTOCContent(headings, options),
                json |-> generateJSONOutput(headings),
                highest |-> getHighestLevel(headings)]
  /\ pc' = "done"
  /\ UNCHANGED <<tokens, options, k, seen, headings, slugVars, insertVars>>

NextToc == ExtractToken \/ ProcessHeadings \/ Generate

SpecToc == InitToc /\ [][NextToc]_vars

(* ------------- a call of toc() with rendering options ------------------ *)
BulletOptions == {UnsetBullets, <<"*">>, <<"+", "">>}

IndentOptions == {<< >>, <<TAB>>}

RenderOptionSets ==
  {[DefaultOptions EXCEPT !.firsth1 = f, !.maxdepth = m, !.filter = p,
                          !.bullets = b, !.indent = n] :
     f \in BOOLEAN, m \in {2, DefaultMaxDepth}, p \in Filters,
     b \in BulletOptions, n \in IndentOptions}

InitRender ==
  /\ tokens \in TokenLists
  /\ options \in RenderOptionSets
  /\ pc = IF tokens = << >> THEN "processHeadings" ELSE "extract"
  /\ k = 1
  /\ seen = << >>
  /\ headings = << >>
  /\ lines = << >>
  /\ result = None
  /\ SlugIdle /\ InsertIdle

SpecRender == InitRender /\ [][NextToc]_vars

(* -------------------------- a call of insert --------------------------- *)
BodyChars == {NL, SP, "x", "# A", "## B", OpenMarker, StopMarker}

FrontMatters ==
  {<< >>,
   <<FMDelim, NL, "title: t", NL, FMDelim, NL>>,
   <<FMDelim, NL, OpenMarker, NL, FMDelim, NL>>}

Documents ==
  {fm \o body : fm \in FrontMatters, body \in SeqsUpTo(BodyChars, MaxBodyLen)}

InsertOptionSets ==
  {DefaultOptions, [DefaultOptions EXCEPT !.toc = <<"T">>]}

InitInsert ==
  /\ doc \in Documents
  /\ iopts \in InsertOptionSets
  /\ ipc = "start"
  /\ inserted = None
  /\ reinserted = None
  /\ SlugIdle /\ TocIdle

\* insert(doc, iopts)
Insert ==
  /\ ipc = "start"
  /\ inserted' = insert(doc, iopts)
  /\ ipc' = "once"
  /\ UNCHANGED <<doc, iopts, reinserted, slugVars, tocVars>>

\* insert applied to the document the first call returned
InsertAgain ==
  /\ ipc = "once"
  /\ inserted.status = "ok"
  /\ reinserted' = insert(inserted.value, iopts)
  /\ ipc' = "twice"
  /\ UNCHANGED <<doc, iopts, inserted, slugVars, tocVars>>

NextInsert == Insert \/ InsertAgain

SpecInsert == InitInsert /\ [][NextInsert]_vars

(* ------------------------- properties of toc() ------------------------- *)
Returned == pc = "done"

\* the number of records before position j with the content of record j
EarlierSame(json, j) ==
  Cardinality({i \in 1..(j - 1) : json[i].content = json[j].content})

\* C1: in the list toc() returns, the k-th heading (k = 0, 1, ...) among
\* those with identical content has seen = k, and so a heading whose content
\* occurs once has seen = 0.
C1_DuplicateOrdinalLaw ==
  Returned =>
    \A j \in 1..Len(result.json) :
      result.json[j].seen = EarlierSame(result.json, j)

\* C2: with the default configuration a heading that repeats the content of
\* an earlier heading gets a slug different from the earlier one's, so no two
\* records of the list share a slug.
C2_SlugsDisambiguated ==
  (Returned /\ options = DefaultOptions) =>
    \A i, j \in 1..Len(result.json) :
      i < j => result.json[i].slug # result.json[j].slug

\* C3: for maxdepth in 1..6, no record of the json list and no rendered line
\* has lvl greater than maxdepth.
C3_DepthFilter ==
  Returned =>
    /\ \A j \in 1..Len(result.json) : result.json[j].lvl <= options.maxdepth
    /\ \A j \in 1..Len(lines) : lines[j].lvl <= options.maxdepth

\* C4 as stated: under any configuration the i fields of the returned list
\* are exactly 0, 1, ..., N-1 in order.
C4_IndexDense ==
  Returned =>
    \A j \in 1..Len(result.json) : result.json[j].i = j - 1

\* the heading tokens of the document, in document order
DocHeadings == SelectSeq(tokens, LAMBDA t : t.type = "heading")

\* C4 amended: the i fields of the returned list are strictly increasing and
\* each is the position of its heading among all headings of the document
\* (before the firsth1 truncation and the filter); they are 0, 1, ..., N-1
\* when firsth1 is true and no filter is configured.
C4_IndexIsExtractionPosition ==
  Returned =>
    /\ \A j \in 1..Len(result.json) :
         /\ result.json[j].i \in 0..(Len(DocHeadings) - 1)
         /\ DocHeadings[result.json[j].i + 1].text = result.json[j].content
         /\ DocHeadings[result.json[j].i + 1].depth = result.json[j].lvl
    /\ \A i, j \in 1..Len(result.json) :
         i < j => result.json[i].i < result.json[j].i
    /\ (options.firsth1 /\ options.filter = "none") =>
         /\ Len(result.json) = Len(DocHeadings)
         /\ \A j \in 1..Len(result.json) : result.json[j].i = j - 1

\* C4 witness: a returned list of two records that starts at index 1 because
\* firsth1 = false dropped the first heading
C4_Witness ==
  /\ Returned
  /\ ~options.firsth1
  /\ Len(result.json) = 2
  /\ result.json[1].i = 1
  /\ result.json[2].i = 2

(* ----------------------- properties of rendering ----------------------- *)
\* the records of the returned list that are rendered
RenderedRecords ==
  SelectSeq(result.json, LAMBDA h : h.lvl <= options.maxdepth)

\* the minimum lvl over the returned (post-filter) list
LowestLvl ==
  CHOOSE m \in {result.json[j].lvl : j \in 1..Len(result.json)} :
    \A j \in 1..Len(result.json) : m <= result.json[j].lvl

ConfiguredBullets ==
  IF options.bullets = UnsetBullets THEN <<"-", "*", "+">> ELSE options.bullets

ConfiguredIndent ==
  IF options.indent = << >> THEN <<SP, SP>> ELSE options.indent

\* bullets[min(lvl - 1, bulletCount - 1)], or "-" when that glyph is falsy
GlyphAt(lvl) ==
  LET n == IF lvl - 1 < Len(ConfiguredBullets) - 1
             THEN lvl - 1 ELSE Len(ConfiguredBullets) - 1
  IN IF ConfiguredBullets[n + 1] = "" THEN "-" ELSE ConfiguredBullets[n + 1]

StartsWith(str, prefix) ==
  Len(str) >= Len(prefix) /\ SubSeq(str, 1, Len(prefix)) = prefix

\* C11: every rendered heading's line is the indent unit repeated
\* max(0, lvl - highest) times followed by bullets[min(lvl - 1, count - 1)]
\* (or "-" for a falsy glyph), with highest the minimum lvl of the
\* post-filter list; so a heading at the highest level is unindented and the
\* glyph follows the absolute level.
C11_IndentAndBullet ==
  Returned =>
    /\ Len(lines) = Len(RenderedRecords)
    /\ result.highest = IF Len(result.json) = 0 THEN 0 ELSE LowestLvl
    /\ \A j \in 1..Len(lines) :
         LET lvl == RenderedRecords[j].lvl
             n == IF lvl - LowestLvl > 0 THEN lvl - LowestLvl ELSE 0
             indentation == [i \in 1..(n * Len(ConfiguredIndent)) |->
                               ConfiguredIndent[((i - 1) % Len(ConfiguredIndent)) + 1]]
         IN /\ StartsWith(lines[j].str, indentation \o <<GlyphAt(lvl), SP>>)
            /\ lvl = LowestLvl => lines[j].str[1] = GlyphAt(lvl)

\* C11 witness: a level 3 heading under a level 2 root, rendered with one
\* tab of indentation and the "-" fallback for the empty second glyph
C11_Witness ==
  /\ Returned
  /\ options.bullets = <<"+", "">>
  /\ options.indent = <<TAB>>
  /\ Len(result.json) = 2
  /\ result.json[1].lvl = 2
  /\ result.json[2].lvl = 3
  /\ Len(lines) = 2
  /\ StartsWith(lines[1].str, <<"-", SP>>)
  /\ StartsWith(lines[2].str, <<TAB, "-", SP>>)

(* ------------------------- properties of insert ------------------------ *)
Inserted == ipc \in {"once", "twice"}

MarkerCount(str) == Cardinality({j \in 1..Len(str) : str[j] \in Markers})

\* the front-matter block the document was built with
FrontMatterOf(str) ==
  IF str # << >> /\ Head(str) = FMDelim
    THEN CHOOSE fm \in FrontMatters \ {<< >>} :
           Len(fm) <= Len(str) /\ SubSeq(str, 1, Len(fm)) = fm
    ELSE << >>

BodyOf(str) == SubSeq(str, Len(FrontMatterOf(str)) + 1, Len(str))

\* the maximal run of newlines at the end of a text
NewlineRun(str) ==
  Cardinality({j \in 1..Len(str) : \A i \in j..Len(str) : str[i] = NL})

\* C5: for a document without front-matter that has a marker and on which
\* insert succeeds, under a configuration with no pre-supplied TOC, insert
\* applied to the result returns the result unchanged.
C5_SpliceIdempotent ==
  (/\ ipc = "twice"
   /\ iopts.toc = << >>
   /\ FrontMatterOf(doc) = << >>
   /\ MarkerCount(doc) >= 1) =>
    /\ reinserted.status = "ok"
    /\ reinserted.value = inserted.value

\* C6: insert fails, and returns no document, whenever the body holds three
\* or more markers, hence whenever it holds more than one marker pair.
C6_MarkerCountRejection ==
  (Inserted /\ MarkerCount(BodyOf(doc)) >= 3) =>
    /\ inserted.status = "error"
    /\ "value" \notin DOMAIN inserted

\* C6 witness: a body of two marker pairs was rejected
C6_Witness ==
  /\ Inserted
  /\ BodyOf(doc) = <<OpenMarker, StopMarker, OpenMarker, StopMarker>>
  /\ inserted.status = "error"

\* C7 as stated: insert fails whenever the segment count is not 2 or 3, so
\* also for a body with no marker.
C7_MissingMarkerRejection ==
  (Inserted /\ MarkerCount(BodyOf(doc)) + 1 \notin {2, 3}) =>
    inserted.status = "error"

\* C7 amended: insert fails exactly when the segment count exceeds 3; a body
\* with no marker (segment count 1) is a successful result with no TOC, and
\* without front-matter it is the trimmed text followed by the trailing
\* newline run of the input.
C7_OnlyExcessMarkersRejected ==
  Inserted =>
    /\ inserted.status = "error" <=> MarkerCount(BodyOf(doc)) + 1 > 3
    /\ MarkerCount(BodyOf(doc)) = 0 =>
         /\ inserted.status = "ok"
         /\ MarkerCount(BodyOf(inserted.value)) = 0
         /\ FrontMatterOf(doc) = << >> =>
              inserted.value = trim(doc) \o [j \in 1..NewlineRun(doc) |-> NL]

\* C7 witness: a document with text and no marker came back without a TOC
C7_Witness ==
  /\ Inserted
  /\ doc = <<"x", SP, "# A", NL>>
  /\ inserted.status = "ok"
  /\ inserted.value = <<"x", SP, "# A", NL>>

\* C8: for a document that begins with front-matter, the markers are looked
\* for in the body only and the result begins with the front-matter block of
\* the input.
C8_FrontMatterPreserved ==
  (Inserted /\ FrontMatterOf(doc) # << >>) =>
    /\ inserted.status = "error" <=> MarkerCount(BodyOf(doc)) > 2
    /\ inserted.status = "ok" =>
         LET fm == FrontMatterOf(doc)
             rest == SubSeq(inserted.value, Len(fm) + 1, Len(inserted.value))
         IN /\ Len(inserted.value) >= Len(fm)
            /\ SubSeq(inserted.value, 1, Len(fm)) = fm
            /\ MarkerCount(rest) =
                 IF MarkerCount(BodyOf(doc)) = 0 THEN 0 ELSE 2

\* C8 witness: front-matter that itself holds a marker, a body with an
\* opening marker and a heading, and a result with the TOC in the body
C8_Witness ==
  /\ Inserted
  /\ doc = <<FMDelim, NL, OpenMarker, NL, FMDelim, NL>> \o <<OpenMarker, "# A">>
  /\ inserted.status = "ok"
  /\ inserted.value =
       <<FMDelim, NL, OpenMarker, NL, FMDelim, NL>> \o
       <<NL, NL, OpenMarker, NL, NL, "-", SP, "[", "A", "]", "(", "#", "a", ")",
         NL, NL, StopMarker, NL, NL, "# A">>

\* C9: for a document without front-matter on which insert succeeds, the run
\* of newlines at the end of the result is the run at the end of the input.
C9_TrailingNewlinesPreserved ==
  (Inserted /\ FrontMatterOf(doc) = << >> /\ inserted.status = "ok") =>
    NewlineRun(inserted.value) = NewlineRun(doc)

\* the text before the first marker and the text after the last marker
BeforeMarkers(str) ==
  SubSeq(str, 1, Cardinality({j \in 1..Len(str) :
                               \A i \in 1..j : str[i] \notin Markers}))

AfterMarkers(str) ==
  SubSeq(str, Len(str) + 1 - Cardinality({j \in 1..Len(str) :
                                           \A i \in j..Len(str) : str[i] \notin Markers}),
         Len(str))

\* the text between the first and the last marker
BetweenMarkers(str) ==
  SubSeq(str, Len(BeforeMarkers(str)) + 2, Len(str) - Len(AfterMarkers(str)) - 1)

Contains(str, c) == \E j \in 1..Len(str) : str[j] = c

\* C12: with one or two markers in the body and no pre-supplied TOC, the
\* result is the trimmed text before the markers, the opening marker, the
\* render of the text after the markers, the closing marker and the trimmed
\* text after the markers; a heading that occurs only before the markers is
\* not in the inserted TOC.
C12_TocFromLastSegment ==
  (Inserted /\ iopts.toc = << >> /\ MarkerCount(BodyOf(doc)) \in {1, 2}) =>
    LET pre == trim(BeforeMarkers(BodyOf(doc)))
        last == trim(AfterMarkers(BodyOf(doc)))
    IN /\ inserted.status = "ok"
       /\ inserted.value =
            FrontMatterOf(doc) \o pre \o <<NL, NL>> \o
            <<OpenMarker, NL, NL>> \o toc(last, iopts).content \o <<NL, NL>> \o
            <<StopMarker>> \o <<NL, NL>> \o last \o
            [j \in 1..NewlineRun(doc) |-> NL]
       /\ (Contains(pre, "# A") /\ ~Contains(last, "# A")) =>
            ~Contains(BetweenMarkers(BodyOf(inserted.value)), "A")
       /\ (Contains(pre, "## B") /\ ~Contains(last, "## B")) =>
            ~Contains(BetweenMarkers(BodyOf(inserted.value)), "B")

\* C12 witness: a heading before an existing marker pair and another after
\* it; the TOC lists only the one after
C12_Witness ==
  /\ Inserted
  /\ iopts.toc = << >>
  /\ doc = <<"# A", OpenMarker, StopMarker, "## B">>
  /\ inserted.status = "ok"
  /\ inserted.value =
       <<"# A", NL, NL, OpenMarker, NL, NL,
         "*", SP, "[", "B", "]", "(", "#", "b", ")",
         NL, NL, StopMarker, NL, NL, "## B">>

(* ------------------------ properties of slugify ------------------------ *)
Slugged == spc = "return"

\* C10 as stated: with the default configuration slugify("Hello World!") is
\* "hello-world" and slugify("C++ & Go") is "c-go".
C10_SlugifyExamples ==
  (Slugged /\ sopts = DefaultSlugOptions) =>
    /\ sstr = HelloWorld => sslug = <<"h","e","l","l","o","-","w","o","r","l","d">>
    /\ sstr = CppAndGo => sslug = <<"c","-","g","o">>

\* C10 amended: with the default configuration slugify("Hello World!") is
\* "hello-world" and slugify("C++ & Go") is "c--go": each whitespace run
\* becomes a hyphen before punctuation is removed, so punctuation removed
\* between two whitespace runs leaves their two hyphens side by side.
C10_SlugifyExamplesAmended ==
  (Slugged /\ sopts = DefaultSlugOptions) =>
    /\ sstr = HelloWorld => sslug = <<"h","e","l","l","o","-","w","o","r","l","d">>
    /\ sstr = CppAndGo => sslug = <<"c","-","-","g","o">>

\* C10 witness: slugify has returned for "C++ & Go"
C10_Witness ==
  /\ Slugged
  /\ sopts = DefaultSlugOptions
  /\ sstr = CppAndGo
  /\ sslug = <<"c","-","-","g","o">>

\* the characters a whitespace rule alone acts on
PlainChars == {"A", "b", SP, TAB}

\* each tab becomes "--", each run of other whitespace one "-", letters are
\* lower-cased
RECURSIVE HyphenatedByRule(_)
HyphenatedByRule(str) ==
  IF str = << >> THEN << >>
  ELSE IF Head(str) = TAB
    THEN <<"-", "-">> \o HyphenatedByRule(Tail(str))
  ELSE IF Head(str) \in {SP, NL}
    THEN IF Len(str) > 1 /\ str[2] \in {SP, NL}
           THEN HyphenatedByRule(Tail(str))
           ELSE <<"-">> \o HyphenatedByRule(Tail(str))
  ELSE <<IF Head(str) = "A" THEN "a" ELSE Head(str)>> \o HyphenatedByRule(Tail(str))

\* C13: with the default configuration each run of non-tab whitespace in
\* the text becomes a single hyphen in the slug and each tab character
\* becomes a double hyphen.
C13_WhitespaceAndTabRule ==
  (/\ Slugged
   /\ sopts = DefaultSlugOptions
   /\ \A j \in 1..Len(sstr) : sstr[j] \in PlainChars) =>
    sslug = HyphenatedByRule(sstr)

====
